---- MODULE Spec2Model ----
(***************************************************************************)
(* Model of the capital gains engine of aus-crypto-capital-gains-calculator *)
(* (calculator/src/fifo.rs, types/src/lib.rs).                              *)
(*                                                                         *)
(* Numbers.  The program keeps amounts, rates and gains as f64.  Here an   *)
(* amount is an integer count of millionths (1e-6) of a unit of currency,  *)
(* a rate is an integer, and a gain is an integer count of millionths of   *)
(* the home currency.  The threshold 0.00001 of is_exhausted is therefore  *)
(* 10.  Rounding error of the floating-point operations is not modelled.   *)
(***************************************************************************)
EXTENDS Integers, Sequences, FiniteSets, TLC

\* ------------------------------------------------------------------------
\* Bounds of the model
\* ------------------------------------------------------------------------

\* Longest transaction sequence handed to the single-currency matcher.
MaxLen == 3

\* Amounts of the matcher's input transactions, in millionths: zero, a
\* quantity below the threshold, the threshold itself, and larger ones whose
\* differences fall on both sides of the threshold.
Amounts == {0, 5, 10, 15, 25}

\* Rates of the input transactions.
Rates == {1, 3}

\* Longest collection handed to calculate_capital_gains.
MaxAggLen == 3

\* Most transactions of currency A put into the second collection of
\* SpecIndep.
MaxOther == 2

\* Currencies, timestamps and <<amount, rate>> pairs of the collections
\* handed to calculate_capital_gains.
Currencies == {"A", "B"}

Times == {1, 2, 3}

Shapes == {<<10, 1>>, <<25, 3>>}

\* ------------------------------------------------------------------------
\* types/src/lib.rs
\* ------------------------------------------------------------------------

TransactionType == {"Buy", "Sell"}

\* 0.00001 in millionths.
EPSILON == 10

\* Transaction::new
new(amount, currency, rate, transaction_type, unixtime) ==
    [amount |-> amount, currency |-> currency, rate |-> rate,
     transaction_type |-> transaction_type, unixtime |-> unixtime]

is_exhausted_exact_zero(t) == t.amount <= 0

\* Transaction::is_exhausted
is_exhausted(t) == t.amount < EPSILON

Min(a, b) == IF a <= b THEN a ELSE b

subtract_sell_no_min(self, other) ==
    IF ~(self.transaction_type = "Buy" /\ other.transaction_type = "Sell")
    THEN [panic |-> TRUE, buy |-> self, sell |-> other, capital_gain |-> 0]
    ELSE IF self.currency # other.currency
    THEN [panic |-> TRUE, buy |-> self, sell |-> other, capital_gain |-> 0]
    ELSE
      LET delta == self.amount
          remaining_buy == self.amount - other.amount
          buy_in_aud == delta * self.rate
          sell_in_aud == delta * other.rate
      IN  IF remaining_buy > 0
          THEN [panic |-> FALSE,
                buy |-> [self EXCEPT !.amount = self.amount - other.amount],
                sell |-> [other EXCEPT !.amount = 0],
                capital_gain |-> sell_in_aud - buy_in_aud]
          ELSE [panic |-> FALSE,
                buy |-> [self EXCEPT !.amount = 0],
                sell |-> [other EXCEPT !.amount = other.amount - self.amount],
                capital_gain |-> sell_in_aud - buy_in_aud]

subtract_sell_always_drain_buy(self, other) ==
    IF ~(self.transaction_type = "Buy" /\ other.transaction_type = "Sell")
    THEN [panic |-> TRUE, buy |-> self, sell |-> other, capital_gain |-> 0]
    ELSE IF self.currency # other.currency
    THEN [panic |-> TRUE, buy |-> self, sell |-> other, capital_gain |-> 0]
    ELSE
      LET delta == Min(self.amount, other.amount)
          buy_in_aud == delta * self.rate
          sell_in_aud == delta * other.rate
      IN  [panic |-> FALSE,
           buy |-> [self EXCEPT !.amount = 0],
           sell |-> [other EXCEPT !.amount = other.amount - self.amount],
           capital_gain |-> sell_in_aud - buy_in_aud]

subtract_sell_zero_both(self, other) ==
    IF ~(self.transaction_type = "Buy" /\ other.transaction_type = "Sell")
    THEN [panic |-> TRUE, buy |-> self, sell |-> other, capital_gain |-> 0]
    ELSE IF self.currency # other.currency
    THEN [panic |-> TRUE, buy |-> self, sell |-> other, capital_gain |-> 0]
    ELSE
      LET delta == Min(self.amount, other.amount)
          buy_in_aud == delta * self.rate
          sell_in_aud == delta * other.rate
      IN  [panic |-> FALSE,
           buy |-> [self EXCEPT !.amount = 0],
           sell |-> [other EXCEPT !.amount = 0],
           capital_gain |-> sell_in_aud - buy_in_aud]

\* Transaction::subtract_sell: the receiver and the argument after the call,
\* the value returned, and whether the call panicked instead.
subtract_sell(self, other) ==
    IF ~(self.transaction_type = "Buy" /\ other.transaction_type = "Sell")
    THEN [panic |-> TRUE, buy |-> self, sell |-> other, capital_gain |-> 0]
    ELSE IF self.currency # other.currency
    THEN [panic |-> TRUE, buy |-> self, sell |-> other, capital_gain |-> 0]
    ELSE
      LET delta == Min(self.amount, other.amount)
          remaining_buy == self.amount - other.amount
          buy_in_aud == delta * self.rate
          sell_in_aud == delta * other.rate
      IN  IF remaining_buy > 0
          THEN [panic |-> FALSE,
                buy |-> [self EXCEPT !.amount = self.amount - other.amount],
                sell |-> [other EXCEPT !.amount = 0],
                capital_gain |-> sell_in_aud - buy_in_aud]
          ELSE [panic |-> FALSE,
                buy |-> [self EXCEPT !.amount = 0],
                sell |-> [other EXCEPT !.amount = other.amount - self.amount],
                capital_gain |-> sell_in_aud - buy_in_aud]

\* ------------------------------------------------------------------------
\* calculator/src/fifo.rs: the values a call returns
\* ------------------------------------------------------------------------

\* Ok(capital_gain) of calculate_capital_gains_single_currency
OkGain(g) == [kind |-> "Ok", gain |-> g]

\* The error of bail!: it carries no gain.
ErrInsufficient == [kind |-> "Err"]

\* A panic of subtract_sell unwinding through the matcher.
Panicked == [kind |-> "Panic"]

\* ------------------------------------------------------------------------
\* State
\* ------------------------------------------------------------------------

VARIABLES
    input,          \* the caller's collection, handed to calculate_capital_gains
    transactions,   \* the parameter `transactions` of calculate_capital_gains
    currencies,     \* what currencies.into_iter() has yet to yield
    capital_gains,  \* the HashMap being filled
    currency,       \* the currency of the current iteration: <<>> or <<c>>
    result,         \* what calculate_capital_gains returned: <<>> or <<result>>
    run,            \* history: 1 in the first call, 2 in the second
    prev,           \* history: what the first call returned
    prevInput,      \* history: the collection of the first call
    outcomes,       \* history: currency -> what its latest matching returned
    prevOutcomes,   \* history: `outcomes` at the end of the first call
    pc,             \* position of the running function
    arg,            \* the matcher's parameter `transactions`, as passed
    iter,           \* what transactions.into_iter() has yet to yield
    lots,           \* the VecDeque of open buy lots
    capital_gain,   \* the running capital gain of the matcher
    sell,           \* the sell being depleted: <<>> or <<transaction>>
    ret,            \* what the matcher returned: <<>> or <<result>>
    matchSum,       \* history: sum over the matches made of
                    \*   min(sell left, lot left) * (sell rate - buy rate)
    everShort,      \* history: some sell began with more than the open lots hold
    everUnmatched,  \* history: some sell began with at least EPSILON more
                    \*   than the open lots hold
    iters,          \* history: iterations of the while loop entered for the
                    \*   current sell
    lotsAtStart     \* history: lots queued when the current sell was taken

matcherVars == <<arg, iter, lots, capital_gain, sell, ret,
                 matchSum, everShort, everUnmatched, iters, lotsAtStart>>

aggVars == <<input, transactions, currencies, capital_gains, currency, result,
             run, prev, prevInput, outcomes, prevOutcomes>>

vars == <<pc, matcherVars, aggVars>>

RECURSIVE SumAmounts(_)
SumAmounts(s) == IF s = <<>> THEN 0 ELSE Head(s).amount + SumAmounts(Tail(s))

\* ------------------------------------------------------------------------
\* Inputs of the matcher: one currency, in time order (the transaction at
\* position i carries unixtime i).
\* ------------------------------------------------------------------------

\* The sequence of n transactions with the amounts, rates and types f gives.
MatcherInput(n, f) ==
    [i \in 1..n |-> new(f[i][1], "A", f[i][2], f[i][3], i)]

\* Entry of calculate_capital_gains_single_currency: empty queue, gain 0.
InitMatcher ==
    /\ input = <<>>
    /\ transactions = <<>>
    /\ currencies = <<>>
    /\ capital_gains = <<>>
    /\ currency = <<>>
    /\ result = <<>>
    /\ run = 1
    /\ prev = <<>>
    /\ prevInput = <<>>
    /\ outcomes = <<>>
    /\ prevOutcomes = <<>>
    /\ \E n \in 0..MaxLen :
          \E f \in [1..n -> Amounts \X Rates \X TransactionType] :
             arg = MatcherInput(n, f)
    /\ iter = arg
    /\ lots = <<>>
    /\ capital_gain = 0
    /\ sell = <<>>
    /\ ret = <<>>
    /\ pc = "for_txn"
    /\ matchSum = 0
    /\ everShort = FALSE
    /\ everUnmatched = FALSE
    /\ iters = 0
    /\ lotsAtStart = 0

\* ------------------------------------------------------------------------
\* calculate_capital_gains_single_currency, step by step
\* ------------------------------------------------------------------------

push_front(q, t) == <<t>> \o q

\* lots.push_back(transaction)
push_back(q, t) == Append(q, t)

pop_none(q) == q

\* lots.pop_front()
pop_front(q) == Tail(q)

retire_head_never(q, b) == <<b>> \o Tail(q)

\* The queue after subtract_sell left the head lot as b: an exhausted head
\* lot is popped, any other stays at the head with its new amount.
retire_head(q, b) == IF is_exhausted(b) THEN pop_front(q) ELSE <<b>> \o Tail(q)

\* The for loop takes a Buy: it joins the tail of the queue.
TakeBuy ==
    /\ pc = "for_txn"
    /\ iter # <<>>
    /\ Head(iter).transaction_type = "Buy"
    /\ lots' = push_back(lots, Head(iter))
    /\ iter' = Tail(iter)
    /\ UNCHANGED <<pc, arg, capital_gain, sell, ret, matchSum, everShort, everUnmatched, iters, lotsAtStart>>
    /\ UNCHANGED aggVars

\* The for loop takes a Sell: it becomes `sell` and the while loop starts.
TakeSell ==
    /\ pc = "for_txn"
    /\ iter # <<>>
    /\ Head(iter).transaction_type = "Sell"
    /\ sell' = <<Head(iter)>>
    /\ iter' = Tail(iter)
    /\ pc' = "while"
    /\ everShort' = (everShort \/ Head(iter).amount > SumAmounts(lots))
    /\ everUnmatched' =
         (everUnmatched \/ Head(iter).amount - SumAmounts(lots) >= EPSILON)
    /\ iters' = 0
    /\ lotsAtStart' = Len(lots)
    /\ UNCHANGED <<arg, lots, capital_gain, ret, matchSum>>
    /\ UNCHANGED aggVars

\* The while condition fails: the sell is exhausted, on to the next transaction.
SellDone ==
    /\ pc = "while"
    /\ is_exhausted(sell[1])
    /\ sell' = <<>>
    /\ pc' = "for_txn"
    /\ UNCHANGED <<arg, iter, lots, capital_gain, ret, matchSum, everShort, everUnmatched, iters, lotsAtStart>>
    /\ UNCHANGED aggVars

\* The sell is not exhausted and no lot is left: bail!.
Bail ==
    /\ pc = "while"
    /\ ~is_exhausted(sell[1])
    /\ Len(lots) = 0
    /\ ret' = <<ErrInsufficient>>
    /\ pc' = "returned"
    /\ iters' = iters + 1
    /\ UNCHANGED <<arg, iter, lots, capital_gain, sell, matchSum, everShort, everUnmatched, lotsAtStart>>
    /\ UNCHANGED aggVars

\* One iteration of the while loop that reaches subtract_sell: the head lot
\* and the sell are reduced, an exhausted head lot is popped, the gain grows.
Match ==
    /\ pc = "while"
    /\ ~is_exhausted(sell[1])
    /\ Len(lots) # 0
    /\ LET r == subtract_sell(lots[1], sell[1])
       IN  IF r.panic
           THEN /\ ret' = <<Panicked>>
                /\ pc' = "returned"
                /\ UNCHANGED <<lots, sell, capital_gain, matchSum>>
           ELSE /\ lots' = retire_head(lots, r.buy)
                /\ sell' = <<r.sell>>
                /\ capital_gain' = capital_gain + r.capital_gain
                /\ matchSum' = matchSum
                     + Min(sell[1].amount, lots[1].amount) * (sell[1].rate - lots[1].rate)
                /\ UNCHANGED <<pc, ret>>
    /\ iters' = iters + 1
    /\ UNCHANGED <<arg, iter, everShort, everUnmatched, lotsAtStart>>
    /\ UNCHANGED aggVars

\* The for loop is over: Ok(capital_gain).
ReturnGain ==
    /\ pc = "for_txn"
    /\ iter = <<>>
    /\ ret' = <<OkGain(capital_gain)>>
    /\ pc' = "returned"
    /\ UNCHANGED <<arg, iter, lots, capital_gain, sell, matchSum, everShort, everUnmatched, iters, lotsAtStart>>
    /\ UNCHANGED aggVars

NextMatcher ==
    \/ TakeBuy
    \/ TakeSell
    \/ SellDone
    \/ Bail
    \/ Match
    \/ ReturnGain

SpecMatcher == InitMatcher /\ [][NextMatcher]_vars

\* The matcher is sequential code: while it has a next step, it takes it.
SpecMatcherFair == SpecMatcher /\ WF_vars(NextMatcher)

\* ------------------------------------------------------------------------
\* calculate_capital_gains_single_currency as one call
\* ------------------------------------------------------------------------

\* The while loop of one Sell run to its end, from queue q, sell s and the
\* gain so far: the queue and the gain it leaves, or the failure.
RECURSIVE deplete(_, _, _)
deplete(q, s, gain) ==
    IF is_exhausted(s) THEN [kind |-> "Ok", lots |-> q, gain |-> gain]
    ELSE IF Len(q) = 0 THEN [kind |-> "Err", lots |-> q, gain |-> gain]
    ELSE LET r == subtract_sell(q[1], s)
         IN  IF r.panic THEN [kind |-> "Panic", lots |-> q, gain |-> gain]
             ELSE deplete(retire_head(q, r.buy), r.sell, gain + r.capital_gain)

\* The for loop from the transactions ts still to take, queue q and the gain
\* so far, to the value the function returns.
RECURSIVE match_from(_, _, _)
match_from(ts, q, gain) ==
    IF ts = <<>> THEN OkGain(gain)
    ELSE IF Head(ts).transaction_type = "Buy"
    THEN match_from(Tail(ts), push_back(q, Head(ts)), gain)
    ELSE LET d == deplete(q, Head(ts), gain)
         IN  IF d.kind = "Ok" THEN match_from(Tail(ts), d.lots, d.gain)
             ELSE IF d.kind = "Err" THEN ErrInsufficient
             ELSE Panicked

calculate_capital_gains_single_currency(ts) == match_from(ts, <<>>, 0)

\* ------------------------------------------------------------------------
\* calculate_capital_gains
\* ------------------------------------------------------------------------

\* Ok(capital_gains)
OkGains(m) == [kind |-> "Ok", gains |-> m]

\* A sorted vector with t put behind every element that is not later than t.
InsertBeforeEqual(v, t) ==
    LET k == Cardinality({ i \in 1..Len(v) : v[i].unixtime < t.unixtime })
    IN  SubSeq(v, 1, k) \o <<t>> \o SubSeq(v, k + 1, Len(v))

InsertByTime(v, t) ==
    LET k == Cardinality({ i \in 1..Len(v) : v[i].unixtime <= t.unixtime })
    IN  SubSeq(v, 1, k) \o <<t>> \o SubSeq(v, k + 1, Len(v))

no_sort(v) == v

\* transactions.sort_by(unixtime): a stable sort, ascending.
RECURSIVE sort_by_unixtime(_)
sort_by_unixtime(v) ==
    IF v = <<>> THEN <<>>
    ELSE InsertByTime(sort_by_unixtime(SubSeq(v, 1, Len(v) - 1)), v[Len(v)])

\* The vector `currencies`: the currency of every transaction, in order.
currencies_of(v) == [i \in 1..Len(v) |-> v[i].currency]

all_transactions(v, c) == v

RECURSIVE reversed(_)
reversed(v) == IF v = <<>> THEN <<>> ELSE Append(reversed(Tail(v)), Head(v))

currency_transactions_reversed(v, c) ==
    reversed(SelectSeq(v, LAMBDA t : t.currency = c))

\* The vector `currency_transactions` built for currency c.
currency_transactions(v, c) == SelectSeq(v, LAMBDA t : t.currency = c)

drained(v, c) ==
    [i \in 1..Len(v) |->
        IF v[i].currency = c THEN [v[i] EXCEPT !.amount = 0] ELSE v[i]]

\* `transactions` once currency c has been matched: the matcher was handed
\* clones, so the vector is what it was.
after_matching(v, c) == v

insert_add(m, k, v) ==
    [x \in DOMAIN m \cup {k} |->
        IF x = k THEN (IF k \in DOMAIN m THEN m[k] + v ELSE v) ELSE m[x]]

\* capital_gains.insert(currency, capital_gain)
insert(m, k, v) == [x \in DOMAIN m \cup {k} |-> IF x = k THEN v ELSE m[x]]

try_insert_skip(m, c, r) ==
    IF r.kind = "Ok"
    THEN [abort |-> FALSE, capital_gains |-> insert(m, c, r.gain)]
    ELSE [abort |-> FALSE, capital_gains |-> m]

\* The `?` on the matcher's result r and the insert that follows it: an
\* error leaves the function at once, a gain goes into the map.
try_insert(m, c, r) ==
    IF r.kind = "Ok"
    THEN [abort |-> FALSE, capital_gains |-> insert(m, c, r.gain)]
    ELSE [abort |-> TRUE, capital_gains |-> m]

\* Collections handed to calculate_capital_gains.
AggTxns ==
    { new(sh[1], c, sh[2], ty, u) :
        sh \in Shapes, c \in Currencies, ty \in TransactionType, u \in Times }

\* The transactions of currency c in v, in the order they have in v.
TxnsOf(v, c) == SelectSeq(v, LAMBDA t : t.currency = c)

DistinctTimes(v) ==
    \A i, j \in 1..Len(v) : i # j => v[i].unixtime # v[j].unixtime

\* Entry of calculate_capital_gains with the collection v.
Call(v) ==
    /\ transactions' = v
    /\ currencies' = <<>>
    /\ capital_gains' = <<>>
    /\ currency' = <<>>
    /\ result' = <<>>
    /\ outcomes' = <<>>
    /\ arg' = <<>>
    /\ ret' = <<>>
    /\ pc' = "sort"
    /\ UNCHANGED <<iter, lots, capital_gain, sell, matchSum, everShort, everUnmatched, iters, lotsAtStart>>

\* The collection v has just been moved into the function.
InitCall(v) ==
    /\ input = v
    /\ transactions = input
    /\ currencies = <<>>
    /\ capital_gains = <<>>
    /\ currency = <<>>
    /\ result = <<>>
    /\ run = 1
    /\ prev = <<>>
    /\ prevInput = <<>>
    /\ outcomes = <<>>
    /\ prevOutcomes = <<>>
    /\ pc = "sort"
    /\ arg = <<>>
    /\ iter = <<>>
    /\ lots = <<>>
    /\ capital_gain = 0
    /\ sell = <<>>
    /\ ret = <<>>
    /\ matchSum = 0
    /\ everShort = FALSE
    /\ everUnmatched = FALSE
    /\ iters = 0
    /\ lotsAtStart = 0

\* Any collection of at most MaxAggLen transactions.
InitAgg == \E n \in 0..MaxAggLen : \E v \in [1..n -> AggTxns] : InitCall(v)

\* The sort, the vector of currencies and the empty map.
SortAndList ==
    /\ pc = "sort"
    /\ transactions' = sort_by_unixtime(transactions)
    /\ currencies' = currencies_of(transactions')
    /\ capital_gains' = <<>>
    /\ pc' = "for_currency"
    /\ UNCHANGED <<input, currency, result, run, prev, prevInput, outcomes, prevOutcomes>>
    /\ UNCHANGED matcherVars

\* One iteration of the loop over `currencies`: the currency's transactions
\* are cloned into a vector, the matcher runs on it, and its result either
\* ends the call (`?`) or goes into the map.
MatchCurrency ==
    /\ pc = "for_currency"
    /\ currencies # <<>>
    /\ LET c == Head(currencies)
           cts == currency_transactions(transactions, c)
           r == calculate_capital_gains_single_currency(cts)
           step == try_insert(capital_gains, c, r)
       IN  /\ currency' = <<c>>
           /\ arg' = cts
           /\ ret' = <<r>>
           /\ outcomes' = [x \in DOMAIN outcomes \cup {c} |->
                               IF x = c THEN r ELSE outcomes[x]]
           /\ transactions' = after_matching(transactions, c)
           /\ capital_gains' = step.capital_gains
           /\ currencies' = Tail(currencies)
           /\ IF step.abort
              THEN /\ result' = <<IF r.kind = "Panic" THEN Panicked ELSE ErrInsufficient>>
                   /\ pc' = "done"
              ELSE UNCHANGED <<result, pc>>
    /\ UNCHANGED <<input, run, prev, prevInput, prevOutcomes>>
    /\ UNCHANGED <<iter, lots, capital_gain, sell, matchSum, everShort, everUnmatched, iters, lotsAtStart>>

\* The loop is over: Ok(capital_gains).
ReturnGains ==
    /\ pc = "for_currency"
    /\ currencies = <<>>
    /\ result' = <<OkGains(capital_gains)>>
    /\ pc' = "done"
    /\ UNCHANGED <<input, transactions, currencies, capital_gains, currency,
                   run, prev, prevInput, outcomes, prevOutcomes>>
    /\ UNCHANGED matcherVars

Next ==
    \/ SortAndList
    \/ MatchCurrency
    \/ ReturnGains

Spec == InitAgg /\ [][Next]_vars

\* ------------------------------------------------------------------------
\* A second call, after the first has returned
\* ------------------------------------------------------------------------

Remember ==
    /\ pc = "done"
    /\ run = 1
    /\ run' = 2
    /\ prev' = result
    /\ prevInput' = input
    /\ prevOutcomes' = outcomes

\* The caller calls again with the identical collection.
CallAgain ==
    /\ Remember
    /\ input' = input
    /\ Call(input')

NextTwice ==
    \/ SortAndList
    \/ MatchCurrency
    \/ ReturnGains
    \/ CallAgain

SpecTwice == InitAgg /\ [][NextTwice]_vars

Reorderings(v) ==
    LET n == Len(v)
    IN  { [i \in 1..n |-> v[p[i]]] :
            p \in { q \in [1..n -> 1..n] : \A i, j \in 1..n : i # j => q[i] # q[j] } }

\* The caller calls again with the same transactions in another order.
CallPermuted ==
    /\ Remember
    /\ DistinctTimes(input)
    /\ input' \in Reorderings(input)
    /\ Call(input')

NextPerm ==
    \/ SortAndList
    \/ MatchCurrency
    \/ ReturnGains
    \/ CallPermuted

SpecPerm == InitAgg /\ [][NextPerm]_vars

\* The transactions of currency A.
OtherTxns == { x \in AggTxns : x.currency = "A" }

\* The transactions of currency B.
KeptTxns == { x \in AggTxns : x.currency = "B" }

InsertAt(v, k, t) == SubSeq(v, 1, k) \o <<t>> \o SubSeq(v, k + 1, Len(v))

\* v with at most n transactions of currency A put in at any places, no
\* longer than MaxAggLen.
RECURSIVE WithOthers(_, _)
WithOthers(v, n) ==
    IF n = 0 THEN { v }
    ELSE LET S == WithOthers(v, n - 1)
         IN  S \cup UNION { { InsertAt(w, k, a) : k \in 0..Len(w), a \in OtherTxns } :
                               w \in { x \in S : Len(x) < MaxAggLen } }

\* The first call is given transactions of currency B alone.
InitIndep == \E n \in 1..MaxAggLen : \E v \in [1..n -> KeptTxns] : InitCall(v)

\* The caller calls again with a collection that has the same transactions
\* of currency B, in the same relative order, and up to MaxOther
\* transactions of currency A at any places and timestamps.  Every
\* collection with these transactions of B is compared with the one that has
\* them alone, and so any two of them with each other.
CallVaried ==
    /\ Remember
    /\ input' \in WithOthers(TxnsOf(input, "B"), MaxOther)
    /\ Call(input')

NextIndep ==
    \/ SortAndList
    \/ MatchCurrency
    \/ ReturnGains
    \/ CallVaried

SpecIndep == InitIndep /\ [][NextIndep]_vars

\* ------------------------------------------------------------------------
\* Properties of calculate_capital_gains
\* ------------------------------------------------------------------------

Done == pc = "done"

\* The currencies that occur in the collection v.
CurrenciesIn(v) == { v[i].currency : i \in 1..Len(v) }

\* What the matcher returns on the transactions of currency c of the
\* collection v, taken in time order.
MatchingOf(v, c) ==
    calculate_capital_gains_single_currency(TxnsOf(sort_by_unixtime(v), c))

\* C4: the call returns an error exactly when the matching of some currency
\* of the input fails, and the error carries no mapping, whatever gains the
\* map held by then; it returns a mapping exactly when every matching
\* succeeds.
C4_ErrorIffSomeCurrencyFails ==
    Done =>
      /\ (result[1].kind = "Err")
           <=> (\E c \in CurrenciesIn(input) : MatchingOf(input, c).kind = "Err")
      /\ (result[1].kind = "Ok")
           <=> (\A c \in CurrenciesIn(input) : MatchingOf(input, c).kind = "Ok")
      /\ result[1].kind = "Err" => "gains" \notin DOMAIN result[1]
      /\ result[1].kind = "Ok" => "gains" \in DOMAIN result[1]

\* The call failed on one currency after the gain of another, not zero, had
\* gone into the map.
C4_Witness ==
    /\ Done
    /\ result[1].kind = "Err"
    /\ \E c \in DOMAIN capital_gains : capital_gains[c] # 0

\* C5: the mapping returned has one key for every currency of the input and
\* no other, and the value of a currency is what the matcher returns on the
\* transactions of that currency alone, in time order; a currency that was
\* only bought has gain 0.
C5_MappingPerCurrency ==
    (Done /\ result[1].kind = "Ok") =>
      /\ DOMAIN result[1].gains = CurrenciesIn(input)
      /\ \A c \in CurrenciesIn(input) :
            /\ result[1].gains[c] = MatchingOf(input, c).gain
            /\ (\A i \in 1..Len(input) :
                   input[i].currency = c => input[i].transaction_type = "Buy")
                 => result[1].gains[c] = 0

\* A mapping with two keys: one currency with a gain that is not zero, the
\* other only bought.
C5_Witness ==
    /\ Done
    /\ result[1].kind = "Ok"
    /\ DOMAIN result[1].gains = {"A", "B"}
    /\ result[1].gains["A"] # 0
    /\ \A i \in 1..Len(input) :
          input[i].currency = "B" => input[i].transaction_type = "Buy"

\* C6: currency independence.  When the two calls were given the same
\* transactions of a currency, in the same relative order, what the matching
\* of that currency returns is the same in both calls whenever both reach
\* it, and so is its gain in the mappings returned, whatever the
\* transactions of the other currency and their timestamps.
C6_CurrencyIndependence ==
    run = 2 =>
      \A c \in Currencies :
        TxnsOf(input, c) = TxnsOf(prevInput, c) =>
          /\ (c \in DOMAIN outcomes /\ c \in DOMAIN prevOutcomes)
               => outcomes[c] = prevOutcomes[c]
          /\ (c \in DOMAIN capital_gains /\ c \in DOMAIN prevOutcomes
                /\ prevOutcomes[c].kind = "Ok")
               => capital_gains[c] = prevOutcomes[c].gain
          /\ (Done /\ result[1].kind = "Ok" /\ prev[1].kind = "Ok"
                /\ c \in DOMAIN prev[1].gains)
               => result[1].gains[c] = prev[1].gains[c]

\* Both calls returned a mapping with the same gain for B, not zero; the
\* second collection has a transaction of A between those of B that the
\* first did not have.
C6_Witness ==
    /\ run = 2
    /\ Done
    /\ result[1].kind = "Ok"
    /\ prev[1].kind = "Ok"
    /\ result[1].gains["B"] # 0
    /\ TxnsOf(prevInput, "A") = <<>>
    /\ Len(transactions) = 3
    /\ transactions[2].currency = "A"

\* C7: the vector built for a currency is a stable partition cell of the
\* sorted transactions: it holds transactions of that currency only, as
\* many as the sorted vector has, at increasing positions of the sorted
\* vector; and the cells of the currencies together have every transaction
\* once.
C7_StablePartition ==
    (pc \in {"for_currency", "done"} /\ currency # <<>>) =>
      LET c == currency[1]
          n == Len(transactions)
          m == Len(arg)
          Sum2 == Len(currency_transactions(transactions, "A"))
                    + Len(currency_transactions(transactions, "B"))
      IN  /\ \A i \in 1..m : arg[i].currency = c
          /\ m = Cardinality({ i \in 1..n : transactions[i].currency = c })
          /\ \E f \in [1..m -> 1..n] :
                /\ \A i \in 1..m : arg[i] = transactions[f[i]]
                /\ \A i, j \in 1..m : i < j => f[i] < f[j]
          /\ Sum2 = n
          /\ \A i, j \in 1..n : i < j => transactions[i].unixtime <= transactions[j].unixtime

\* The cell of A was built from a sorted vector A, B, A whose two
\* transactions of A differ.
C7_Witness ==
    /\ pc = "for_currency"
    /\ currency = <<"A">>
    /\ Len(transactions) = 3
    /\ transactions[2].currency = "B"
    /\ Len(arg) = 2
    /\ arg[1] # arg[2]

C9_OrderNotAssumed ==
    (run = 2 /\ Done /\ DistinctTimes(input) /\ input \in Reorderings(prevInput))
       => result = prev

\* The second call was given the first collection, sorted, in reverse, and
\* returned the same mapping with a gain that is not zero.
C9_Witness ==
    /\ run = 2
    /\ Done
    /\ Len(input) = 3
    /\ input = reversed(transactions)
    /\ prevInput = transactions
    /\ result[1].kind = "Ok"
    /\ \E c \in DOMAIN result[1].gains : result[1].gains[c] # 0
    /\ result = prev

\* ------------------------------------------------------------------------
\* Properties of the matcher (checked under SpecMatcher)
\* ------------------------------------------------------------------------

Returned == pc = "returned"

\* The transactions the for loop has already taken.
Taken == Len(arg) - Len(iter)

\* The amount a queued lot was bought with (position = unixtime in `arg`).
OrigAmount(lot) == arg[lot.unixtime].amount

\* The matcher run step by step returns what the matcher as one call (the
\* form MatchCurrency uses) returns on the same argument.
MatcherStepsAgree ==
    Returned => ret[1] = calculate_capital_gains_single_currency(arg)

\* C1: the gain the matcher accumulates, and returns on success, is the sum
\* over the matches made of min(sell left, lot left) * (sell rate - buy
\* rate); quantity never matched adds nothing, and without a sell the gain
\* is 0.
C1_GainIsSumOfMatches ==
    /\ capital_gain = matchSum
    /\ (Returned /\ ret[1].kind = "Ok") => ret[1].gain = matchSum
    /\ (Returned /\ \A i \in 1..Len(arg) : arg[i].transaction_type = "Buy")
         => ret[1] = OkGain(0)

\* A successful run with two lots matched by one sell, a gain that is not
\* zero and a lot left open.
C1_Witness ==
    /\ Returned
    /\ ret[1].kind = "Ok"
    /\ ret[1].gain # 0
    /\ lots # <<>>
    /\ lots[1].amount < OrigAmount(lots[1])
    /\ lots[1].unixtime = 2
    /\ arg[3].transaction_type = "Sell"

\* C2: matching is first in, first out.  The queue holds the lots in the
\* order they were bought, every Buy taken after the head lot is still
\* queued, and every lot behind the head has the amount it was bought with:
\* no sell has taken anything from a lot while an older lot was queued.
C2_Fifo ==
    /\ \A i \in 1..Len(lots) : lots[i].transaction_type = "Buy"
    /\ \A i \in 1..(Len(lots) - 1) : lots[i].unixtime < lots[i + 1].unixtime
    /\ \A i \in 2..Len(lots) : lots[i].amount = OrigAmount(lots[i])
    /\ lots # <<>> =>
         \A k \in 1..Taken :
            (arg[k].transaction_type = "Buy" /\ k > lots[1].unixtime)
               => \E i \in 1..Len(lots) : lots[i].unixtime = k
    /\ (lots # <<>> /\ Len(iter) < Len(arg) /\ arg[Taken].transaction_type = "Buy")
         => lots[Len(lots)].unixtime = Taken

\* Two lots were bought, a sell took part of the older one, and the newer
\* one waits behind it untouched.
C2_Witness ==
    /\ Len(lots) = 2
    /\ lots[1].amount < OrigAmount(lots[1])
    /\ lots[1].amount >= EPSILON
    /\ lots[2].amount = OrigAmount(lots[2])
    /\ pc = "for_txn"

\* C3 as stated: the matcher fails exactly when some sell began with a
\* quantity larger than the total the open lots held.
C3_FailsIffShort ==
    Returned => ((ret[1].kind = "Err") <=> everShort)

\* C3, amended: the matcher fails, returning no gain, exactly when some sell
\* began with a quantity that exceeds the total the open lots held by at
\* least the threshold EPSILON; buys still to come do not matter.
C3_FailsIffUnmatched ==
    /\ Returned => ((ret[1].kind = "Err") <=> everUnmatched)
    /\ Returned => ((ret[1].kind = "Ok") <=> ~everUnmatched)
    /\ (Returned /\ ret[1].kind = "Err") => "gain" \notin DOMAIN ret[1]

\* The matcher failed on a sell that followed a smaller buy, with a buy
\* still to come.
C3_Witness ==
    /\ Returned
    /\ ret[1].kind = "Err"
    /\ Taken = 2
    /\ arg[1].transaction_type = "Buy"
    /\ arg[1].amount >= EPSILON
    /\ iter # <<>>
    /\ Head(iter).transaction_type = "Buy"

\* C10: a lot that a match has left below EPSILON is popped in the same
\* iteration: in no state does the queue hold a lot that is below EPSILON
\* and below the amount it was bought with, so no sell is matched with one.
C10_NoReducedExhaustedLot ==
    \A i \in 1..Len(lots) :
        is_exhausted(lots[i]) => lots[i].amount = OrigAmount(lots[i])

\* A buy of 15 met a sell of 10: the 5 left are below EPSILON and the lot is
\* gone from the queue.
C10_Witness ==
    /\ Taken = 2
    /\ arg[1].transaction_type = "Buy"
    /\ arg[1].amount = 15
    /\ arg[2].transaction_type = "Sell"
    /\ arg[2].amount = 10
    /\ sell # <<>>
    /\ sell[1].amount = 0
    /\ lots = <<>>

\* The while loop is about to call subtract_sell on the head lot and the sell.
AtMatch == pc = "while" /\ ~is_exhausted(sell[1]) /\ Len(lots) # 0

\* C11: amounts never go below zero.  With no negative amount in the input,
\* no queued lot and no sell being depleted has a negative amount in any
\* state, and neither side comes out of subtract_sell negative (the head lot
\* is looked at here before an exhausted one is popped).
C11_AmountsNonNegative ==
    (\A i \in 1..Len(arg) : arg[i].amount >= 0) =>
      /\ \A i \in 1..Len(lots) : lots[i].amount >= 0
      /\ sell # <<>> => sell[1].amount >= 0
      /\ AtMatch =>
           LET r == subtract_sell(lots[1], sell[1])
           IN  r.buy.amount >= 0 /\ r.sell.amount >= 0

\* A sell consumed a whole lot, has a positive amount left, and another lot
\* waits in the queue.
C11_Witness ==
    /\ pc = "while"
    /\ sell[1].amount > 0
    /\ sell[1].amount < arg[Taken].amount
    /\ lots # <<>>
    /\ lots[1].amount > 0

\* C12: the panic of subtract_sell is out of reach of calculate_capital_gains.
\* No matching of a currency ends in the panic and the call never does: every
\* subtract_sell the matcher makes has a Buy as receiver, a Sell as argument
\* and one currency on both sides, the vector handed to the matcher holding
\* one currency only.
C12_PanicUnreachable ==
    /\ \A c \in DOMAIN outcomes : outcomes[c].kind # "Panic"
    /\ ret # <<>> => ret[1].kind # "Panic"
    /\ result # <<>> => result[1].kind # "Panic"
    /\ currency # <<>> =>
         /\ \A i \in 1..Len(arg) : arg[i].currency = currency[1]
         /\ calculate_capital_gains_single_currency(arg).kind \in {"Ok", "Err"}

\* The call returned a gain, not zero, for A, whose buy and sell have a buy of
\* B between them: the sell of A met the lot of A, not the lot of B.
C12_Witness ==
    /\ pc = "done"
    /\ result[1].kind = "Ok"
    /\ Len(transactions) = 3
    /\ transactions[1].currency = "A"
    /\ transactions[1].transaction_type = "Buy"
    /\ transactions[2].currency = "B"
    /\ transactions[2].transaction_type = "Buy"
    /\ transactions[3].currency = "A"
    /\ transactions[3].transaction_type = "Sell"
    /\ result[1].gains["A"] # 0

\* The head lot b and the sell s after a match: each less by the smaller of
\* the two amounts, nothing else changed.
LessDelta(t, b, s) == [t EXCEPT !.amount = t.amount - Min(b.amount, s.amount)]

\* C13: a match changes two amounts and nothing else.  subtract_sell returns
\* the head lot and the sell each reduced by delta = min(lot left, sell
\* left), with their rate, currency, type and timestamp as they were; and the
\* iteration leaves the queue behind the head, the transactions still to
\* come and the argument as they were, the head lot either reduced in place
\* or popped.
C13_MatchFrame ==
    /\ [](AtMatch =>
            LET r == subtract_sell(lots[1], sell[1])
            IN  /\ ~r.panic
                /\ r.buy = LessDelta(lots[1], lots[1], sell[1])
                /\ r.sell = LessDelta(sell[1], lots[1], sell[1]))
    /\ [][AtMatch =>
            /\ sell' = <<LessDelta(sell[1], lots[1], sell[1])>>
            /\ \/ lots' = <<LessDelta(lots[1], lots[1], sell[1])>> \o Tail(lots)
               \/ lots' = Tail(lots)
            /\ iter' = iter
            /\ arg' = arg]_vars

\* A sell has just been matched with the older of two lots: it is at 0, the
\* lot has its amount less the sell's and stays at the head, and the newer
\* lot is as it was bought.
C13_Witness ==
    /\ pc = "while"
    /\ sell[1].amount = 0
    /\ arg[Taken].amount >= EPSILON
    /\ Len(lots) = 2
    /\ lots[1] = [arg[lots[1].unixtime] EXCEPT !.amount = @ - arg[Taken].amount]
    /\ lots[2] = arg[lots[2].unixtime]

\* The sort has run: `transactions` is the sorted vector.
Sorted == pc \in {"for_currency", "done"}

\* The transactions of v that carry the timestamp u, in the order of v.
AtTime(v, u) == SelectSeq(v, LAMBDA t : t.unixtime = u)

\* The transactions of currency c of the input all carry one timestamp.
OneTimestamp(c) ==
    \A i, j \in 1..Len(input) :
        input[i].currency = c /\ input[j].currency = c
            => input[i].unixtime = input[j].unixtime

\* C14: the sort orders by timestamp only and is stable.  After the sort,
\* timestamps never decrease along `transactions`, and the transactions
\* that carry any one timestamp are those of the input with that timestamp,
\* in the relative order they have in the input; and a currency whose
\* transactions all carry one timestamp is matched on them in their input
\* order, its outcome being the matcher's on that sequence.
C14_TieBreakInputOrder ==
    Sorted =>
      /\ Len(transactions) = Len(input)
      /\ \A i, j \in 1..Len(transactions) :
           i < j => transactions[i].unixtime <= transactions[j].unixtime
      /\ \A u \in Times : AtTime(transactions, u) = AtTime(input, u)
      /\ \A c \in Currencies :
           OneTimestamp(c) =>
             /\ TxnsOf(transactions, c) = TxnsOf(input, c)
             /\ c \in DOMAIN outcomes =>
                  outcomes[c] =
                    calculate_capital_gains_single_currency(TxnsOf(input, c))

\* A buy of 25 at rate 3 and then a sell of 10 at rate 1 of one currency,
\* with one timestamp: the call returns the loss of 20 that matching the sell
\* with the buy gives, where the opposite order would find no lot to match.
C14_Witness ==
    /\ Done
    /\ Len(input) = 2
    /\ input[1] = new(25, "A", 3, "Buy", 2)
    /\ input[2] = new(10, "A", 1, "Sell", 2)
    /\ result = <<OkGains([c \in {"A"} |-> 0 - 20])>>

\* C15: the sell loop terminates.  Every iteration that reaches subtract_sell
\* leaves the sell at 0, or leaves the head lot at 0 and pops it; so a sell
\* never takes more iterations than lots were queued when it was taken, plus
\* one; a sell is left only once exhausted; and the matcher returns, with
\* a gain and no sell in hand, or with the InsufficientLots failure of the
\* sell in hand, the queue empty.
C15_SellLoopTerminates ==
    /\ [](iters <= lotsAtStart + 1)
    /\ [][AtMatch =>
            \/ sell'[1].amount = 0
            \/ /\ subtract_sell(lots[1], sell[1]).buy.amount = 0
               /\ lots' = Tail(lots)
               /\ Len(lots') = Len(lots) - 1]_vars
    /\ [][sell # <<>> /\ sell' = <<>> => is_exhausted(sell[1])]_vars
    /\ [](Returned =>
            \/ ret = <<OkGain(capital_gain)>> /\ sell = <<>>
            \/ ret = <<ErrInsufficient>> /\ sell # <<>> /\ lots = <<>>)
    /\ <>Returned

\* A sell of more than two queued lots hold: two iterations drained and
\* popped a lot each, the third found the queue empty and failed.
C15_Witness ==
    /\ Returned
    /\ ret = <<ErrInsufficient>>
    /\ lotsAtStart = 2
    /\ iters = lotsAtStart + 1
    /\ lots = <<>>
    /\ sell[1].amount = arg[3].amount - arg[1].amount - arg[2].amount
    /\ arg[1].amount > 0
    /\ arg[2].amount > 0

====
